---- MODULE Spec2Model ----
(***************************************************************************)
(* Model of posify's Printer (src/src/printer.rs): the command facade that *)
(* turns print directives into ESC/POS bytes on a file, for the SNBC and   *)
(* P3 printers.                                                            *)
(*                                                                         *)
(* Strings are sequences of character codes, byte buffers are sequences of *)
(* numbers in 0..255.  The file is a blocking device file that takes every *)
(* byte of a write; a read may return fewer bytes than the buffer holds.   *)
(***************************************************************************)
EXTENDS Integers, Sequences, FiniteSets, TLC

VARIABLES printer, sink, calls, last

vars == <<printer, sink, calls, last>>

(***************************************************************************)
(* Bounds.                                                                 *)
(***************************************************************************)
MaxCalls == 2
MaxSeqCalls == 5

(***************************************************************************)
(* Values.                                                                 *)
(***************************************************************************)
Byte == 0..255

SupportedPrinters == {"SNBC", "P3", "Unknown"}

BarcodeType == {"UPCA", "UPCE", "EAN13", "EAN8", "CODE39", "ITF", "Code93",
                "Codabar", "Code128", "PDF417", "QRCode", "Maxicode", "GS1"}

TextPosition == {"Off", "Above", "Below", "Both"}

Font == {"Standard", "Compressed", "FontA", "FontB"}

Ok(v) == [ok |-> TRUE, val |-> v]

\* Option<T>: None is the empty tuple, Some(v) the tuple of v.
None == <<>>

Some(v) == <<v>>

unwrap_or(o, default) == IF o = None THEN default ELSE o[1]

Err(kind) == [ok |-> FALSE, err |-> kind]

(***************************************************************************)
(* Strings.  str::to_uppercase on ASCII text, str::as_bytes and the UTF-8  *)
(* codec (the default codec of Printer::new) on code points below 0x800.   *)
(***************************************************************************)
upper_char(c) == IF c >= 97 /\ c <= 122 THEN c - 32 ELSE c

to_uppercase(s) == [i \in 1..Len(s) |-> upper_char(s[i])]

utf8_char(c) == IF c < 128 THEN <<c>>
                ELSE <<192 + (c \div 64), 128 + (c % 64)>>

RECURSIVE utf8(_)
utf8(s) == IF s = <<>> THEN <<>> ELSE utf8_char(Head(s)) \o utf8(Tail(s))

as_bytes(s) == utf8(s)

encode(content) == Ok(utf8(content))

(***************************************************************************)
(* Printer::write: the file takes the whole buffer, appended at the end.   *)
(***************************************************************************)
write_at_front(s, buf) == [sink |-> buf \o s, n |-> Len(buf)]

write(s, buf) == [sink |-> s \o buf, n |-> Len(buf)]

(***************************************************************************)
(* Barcode                                                                 *)
(***************************************************************************)
set_width_from_1(bc) ==
    CASE bc.printer = "SNBC" ->
           IF bc.width >= 1 /\ bc.width <= 6
           THEN Ok(<<\h1D, \h77, bc.width>>)
           ELSE Ok(<<\h1D, \h77, \h02>>)
      [] bc.printer = "P3" ->
           IF bc.width >= 1 /\ bc.width <= 6
           THEN Ok(<<\h1D, \h77, bc.width>>)
           ELSE Ok(<<\h1D, \h77, \h03>>)
      [] OTHER -> Err("Unsupported")

set_width(bc) ==
    CASE bc.printer = "SNBC" ->
           IF bc.width >= 2 /\ bc.width <= 6
           THEN Ok(<<\h1D, \h77, bc.width>>)
           ELSE Ok(<<\h1D, \h77, \h02>>)
      [] bc.printer = "P3" ->
           IF bc.width >= 1 /\ bc.width <= 6
           THEN Ok(<<\h1D, \h77, bc.width>>)
           ELSE Ok(<<\h1D, \h77, \h03>>)
      [] OTHER -> Err("Unsupported")

set_height(bc) == <<\h1D, \h68, bc.height % 256>>

set_text_position(bc) ==
    CASE bc.position = "Off" -> <<\h1D, \h48, \h00>>
      [] bc.position = "Above" -> <<\h1D, \h48, \h01>>
      [] bc.position = "Below" -> <<\h1D, \h48, \h02>>
      [] bc.position = "Both" -> <<\h1D, \h48, \h03>>

set_font(bc) ==
    CASE bc.font = "Compressed" -> <<\h1D, \h66, \h01>>
      [] bc.font = "FontB" -> <<\h1D, \h66, \h01>>
      [] OTHER -> <<\h1D, \h66, \h00>>

set_barcode_type(bc) ==
    CASE bc.kind = "EAN13" -> <<\h1D, \h6B, \h02>>
      [] bc.kind = "Code128" -> <<\h1D, \h6B, \h08>>
      [] OTHER -> <<\h1D, \h6B, \h02>>

(***************************************************************************)
(* The record of a call: what was called, the sink before it, how it       *)
(* returned (ret is "Ok" or the error kind) and the count it returned.     *)
(***************************************************************************)
Returned(op, arg, r) ==
    /\ last' = [op |-> op, arg |-> arg, before |-> sink,
                ret |-> IF r.ok THEN "Ok" ELSE r.err,
                n |-> IF r.ok THEN r.val ELSE 0]
    /\ calls' = Append(calls, [op |-> op, arg |-> arg,
                               ret |-> IF r.ok THEN "Ok" ELSE r.err])
    /\ UNCHANGED printer

barcode_code128_set_any(s, kind) == write(s, <<\h7B, \h42>>).sink

barcode_code128_set(s, kind) ==
    IF kind = "Code128" THEN write(s, <<\h7B, \h42>>).sink ELSE s

barcode(code, kind, position, font, width, height) ==
    LET bc == [printer |-> printer, width |-> width, height |-> height,
               position |-> position, font |-> font, kind |-> kind]
        arg == [code |-> code, kind |-> kind, position |-> position,
                font |-> font, width |-> width, height |-> height]
        w == set_width(bc)
    IN  IF ~w.ok
        THEN /\ sink' = sink
             /\ Returned("barcode", arg, w)
        ELSE LET w1 == write(sink, w.val)
                 w2 == write(w1.sink, set_height(bc))
                 w3 == write(w2.sink, set_text_position(bc))
                 w4 == write(w3.sink, set_font(bc))
                 w5 == write(w4.sink, set_barcode_type(bc))
                 s6 == barcode_code128_set(w5.sink, kind)
                 s7 == write(s6, as_bytes(code)).sink
                 s8 == write(s7, <<\h00>>).sink
             IN  /\ sink' = s8
                 /\ Returned("barcode", arg,
                             Ok(w1.n + w2.n + w3.n + w4.n + w5.n))

(***************************************************************************)
(* The command tables of consts.rs that printer.rs uses.                   *)
(***************************************************************************)
CTL_LF == <<\h0A>>
CTL_FF == <<\h0C>>
CTL_CR == <<\h0D>>
CTL_HT == <<\h09>>
CTL_VT == <<\h0B>>

TXT_NORMAL == <<\h1B, \h21, \h00>>
TXT_2HEIGHT == <<\h1B, \h21, \h10>>
TXT_2WIDTH == <<\h1B, \h21, \h20>>

TXT_UNDERL_OFF == <<\h1B, \h2D, \h00>>
TXT_UNDERL_ON == <<\h1B, \h2D, \h01>>
TXT_UNDERL2_ON == <<\h1B, \h2D, \h02>>
TXT_BOLD_OFF == <<\h1B, \h45, \h00>>
TXT_BOLD_ON == <<\h1B, \h45, \h01>>

TXT_FONT_A == <<\h1B, \h4D, \h00>>
TXT_FONT_B == <<\h1B, \h4D, \h01>>
TXT_FONT_C == <<\h1B, \h4D, \h02>>

TXT_ALIGN_LT == <<\h1B, \h61, \h00>>
TXT_ALIGN_CT == <<\h1B, \h61, \h01>>
TXT_ALIGN_RT == <<\h1B, \h61, \h02>>

CD_KICK_2 == <<\h1B, \h70, \h00>>
CD_KICK_5 == <<\h1B, \h70, \h01>>

BITMAP_S8 == <<\h1B, \h2A, \h00>>
BITMAP_D8 == <<\h1B, \h2A, \h01>>
BITMAP_S24 == <<\h1B, \h2A, \h20>>
BITMAP_D24 == <<\h1B, \h2A, \h21>>

(***************************************************************************)
(* The text the callers pass, as character codes.                          *)
(***************************************************************************)
str_LF == <<76, 70>>
str_FF == <<70, 70>>
str_CR == <<67, 82>>
str_HT == <<72, 84>>
str_VT == <<86, 84>>
str_LT == <<76, 84>>
str_CT == <<67, 84>>
str_RT == <<82, 84>>
str_A == <<65>>
str_B == <<66>>
str_C == <<67>>
str_U == <<85>>
str_U2 == <<85, 50>>
str_BU == <<66, 85>>
str_BU2 == <<66, 85, 50>>
str_OFF == <<79, 70, 70>>
str_ON == <<79, 78>>
str_THICK == <<84, 72, 73, 67, 75>>
str_S8 == <<83, 56>>
str_D8 == <<68, 56>>
str_S24 == <<83, 50, 52>>
str_D24 == <<68, 50, 52>>
str_s8 == <<115, 56>>
str_d8 == <<100, 56>>
str_d24 == <<100, 50, 52>>
str_newline == <<10>>
str_NORMAL == <<78, 79, 82, 77, 65, 76>>
str_DW == <<68, 87>>
str_DH == <<68, 72>>
str_QD == <<81, 68>>

repeat(s, n) == [i \in 1..(n * Len(s)) |-> s[((i - 1) % Len(s)) + 1]]

(***************************************************************************)
(* A call that writes one buffer, or fails before writing.                 *)
(***************************************************************************)
WriteOrFail(op, arg, r) ==
    IF ~r.ok
    THEN /\ sink' = sink
         /\ Returned(op, arg, r)
    ELSE LET w == write(sink, r.val)
         IN  /\ sink' = w.sink
             /\ Returned(op, arg, Ok(w.n))

Unsupported == Err("Unsupported")

hwinit == WriteOrFail("hwinit", <<>>, Ok(<<\h1B, \h40>>))

enable ==
    WriteOrFail("enable", <<>>,
        CASE printer = "SNBC" -> Ok(<<\h1B, \h3D, \h01>>)
          [] printer = "P3" -> Ok(<<\h1B, \h3D, \h01>>)
          [] OTHER -> Unsupported)

disable ==
    WriteOrFail("disable", <<>>,
        CASE printer = "SNBC" -> Ok(<<\h1B, \h3D, \h00>>)
          [] printer = "P3" -> Ok(<<\h1B, \h3D, \h02>>)
          [] OTHER -> Unsupported)

print(content) == WriteOrFail("print", content, encode(content))

println(content) ==
    WriteOrFail("println", content, encode(content \o str_newline))

underline_mode(mode) ==
    LET mode_upper == to_uppercase(unwrap_or(mode, str_OFF))
    IN  WriteOrFail("underline_mode", mode,
            CASE mode_upper = str_OFF -> Ok(<<\h1B, \h2D, \h00>>)
              [] mode_upper = str_ON -> Ok(<<\h1B, \h2D, \h01>>)
              [] mode_upper = str_THICK -> Ok(<<\h1B, \h2D, \h02>>)
              [] OTHER -> Ok(<<\h1B, \h2D, \h00>>))

line_space_bytes(n) ==
    IF n >= 0 /\ n <= 255 THEN <<\h1B, \h33, n>> ELSE <<\h1B, \h32>>

line_space(n) == WriteOrFail("line_space", n, Ok(line_space_bytes(n)))

feed_bytes_as_given(n) == repeat(str_newline, n)

feed_bytes(n) == repeat(str_newline, IF n < 1 THEN 1 ELSE n)

feed(n) == WriteOrFail("feed", n, Ok(feed_bytes(n)))

control_lenient(ctrl) ==
    LET ctrl_upper == to_uppercase(ctrl)
    IN  WriteOrFail("control", ctrl,
            CASE ctrl_upper = str_LF -> Ok(CTL_LF)
              [] ctrl_upper = str_FF -> Ok(CTL_FF)
              [] ctrl_upper = str_CR -> Ok(CTL_CR)
              [] ctrl_upper = str_HT -> Ok(CTL_HT)
              [] ctrl_upper = str_VT -> Ok(CTL_VT)
              [] OTHER -> Ok(CTL_LF))

control(ctrl) ==
    LET ctrl_upper == to_uppercase(ctrl)
    IN  WriteOrFail("control", ctrl,
            CASE ctrl_upper = str_LF -> Ok(CTL_LF)
              [] ctrl_upper = str_FF -> Ok(CTL_FF)
              [] ctrl_upper = str_CR -> Ok(CTL_CR)
              [] ctrl_upper = str_HT -> Ok(CTL_HT)
              [] ctrl_upper = str_VT -> Ok(CTL_VT)
              [] OTHER -> Err("InvalidData"))

align(alignment) ==
    LET align_upper == to_uppercase(alignment)
    IN  WriteOrFail("align", alignment,
            CASE align_upper = str_LT -> Ok(TXT_ALIGN_LT)
              [] align_upper = str_CT -> Ok(TXT_ALIGN_CT)
              [] align_upper = str_RT -> Ok(TXT_ALIGN_RT)
              [] OTHER -> Err("InvalidData"))

font(family) ==
    LET family_upper == to_uppercase(family)
    IN  WriteOrFail("font", family,
            CASE family_upper = str_A -> Ok(TXT_FONT_A)
              [] family_upper = str_B -> Ok(TXT_FONT_B)
              [] family_upper = str_C -> Ok(TXT_FONT_C)
              [] OTHER -> Err("InvalidData"))

\* The two buffers Printer::style writes, in the order it writes them.
style_writes(kind) ==
    LET kind_upper == to_uppercase(kind)
    IN  CASE kind_upper = str_B -> <<TXT_UNDERL_OFF, TXT_BOLD_ON>>
          [] kind_upper = str_U -> <<TXT_BOLD_OFF, TXT_UNDERL_ON>>
          [] kind_upper = str_U2 -> <<TXT_BOLD_OFF, TXT_UNDERL2_ON>>
          [] kind_upper = str_BU -> <<TXT_BOLD_ON, TXT_UNDERL_ON>>
          [] kind_upper = str_BU2 -> <<TXT_BOLD_ON, TXT_UNDERL2_ON>>
          [] OTHER -> <<TXT_BOLD_OFF, TXT_UNDERL_OFF>>

style(kind) ==
    LET w1 == write(sink, style_writes(kind)[1])
        w2 == write(w1.sink, style_writes(kind)[2])
    IN  /\ sink' = w2.sink
        /\ Returned("style", kind, Ok(w1.n + w2.n))

size_height_first(width, height) ==
    LET w1 == write(sink, TXT_NORMAL)
        w2 == IF height = 2 THEN write(w1.sink, TXT_2HEIGHT)
              ELSE [sink |-> w1.sink, n |-> 0]
        w3 == IF width = 2 THEN write(w2.sink, TXT_2WIDTH)
              ELSE [sink |-> w2.sink, n |-> 0]
    IN  /\ sink' = w3.sink
        /\ Returned("size", <<width, height>>, Ok(w1.n + w2.n + w3.n))

size(width, height) ==
    LET w1 == write(sink, TXT_NORMAL)
        w2 == IF width = 2 THEN write(w1.sink, TXT_2WIDTH)
              ELSE [sink |-> w1.sink, n |-> 0]
        w3 == IF height = 2 THEN write(w2.sink, TXT_2HEIGHT)
              ELSE [sink |-> w2.sink, n |-> 0]
    IN  /\ sink' = w3.sink
        /\ Returned("size", <<width, height>>, Ok(w1.n + w2.n + w3.n))

cashdraw(pin) ==
    WriteOrFail("cashdraw", pin,
                Ok(IF pin = 5 THEN CD_KICK_5 ELSE CD_KICK_2))

full_cut_any(p) ==
    CASE p = "SNBC" -> Ok(<<\h0A, \h0A, \h0A, \h1D, \h56, \h00>>)
      [] p = "P3" -> Ok(<<\h0A, \h0A, \h0A, \h1D, \h56, \h00>>)
      [] OTHER -> Unsupported

full_cut_bytes(p) ==
    CASE p = "SNBC" -> Ok(<<\h0A, \h0A, \h0A, \h1D, \h56, \h00>>)
      [] OTHER -> Unsupported

full_cut == WriteOrFail("full_cut", <<>>, full_cut_bytes(printer))

partial_cut_one_dialect(p) ==
    CASE p = "SNBC" -> Ok(<<\h0A, \h0A, \h0A, \h1D, \h56, \h01>>)
      [] p = "P3" -> Ok(<<\h0A, \h0A, \h0A, \h1D, \h56, \h01>>)
      [] OTHER -> Unsupported

partial_cut_bytes(p) ==
    CASE p = "SNBC" -> Ok(<<\h0A, \h0A, \h0A, \h1D, \h56, \h01>>)
      [] p = "P3" -> Ok(<<\h0A, \h0A, \h0A, \h1B, \h6D>>)
      [] OTHER -> Unsupported

partial_cut == WriteOrFail("partial_cut", <<>>, partial_cut_bytes(printer))

(***************************************************************************)
(* Images.  An image is its width and height in dots and its pixel data;   *)
(* bitimage_lines cuts it top to bottom into ceil(height / density) rows   *)
(* of density dots, each row one column after the other with density / 8   *)
(* bytes per column.                                                       *)
(***************************************************************************)
row_byte(image, i, j) == (image.seed + 16 * i + j) % 256

bitimage_lines(image, density) ==
    [i \in 1..((image.height + density - 1) \div density) |->
        [j \in 1..(image.width * (density \div 8)) |-> row_byte(image, i, j)]]

u16le_big_endian(n) == <<(n \div 256) % 256, n % 256>>

u16le(n) == <<n % 256, (n \div 256) % 256>>

write_u16le(s, n) == write(s, u16le(n))

\* The loop of Printer::bit_image over the rows, from sink s.
RECURSIVE bit_image_lines(_, _, _, _)
bit_image_lines(s, header, n, lines) ==
    IF lines = <<>> THEN [sink |-> s, n |-> 0]
    ELSE LET line == Head(lines)
             w1 == write(s, header)
             w2 == write_u16le(w1.sink, (Len(line) \div n) % 65536)
             w3 == write(w2.sink, line)
             w4 == write(w3.sink, feed_bytes(1))
             rest == bit_image_lines(w4.sink, header, n, Tail(lines))
         IN  [sink |-> rest.sink, n |-> w1.n + w2.n + w3.n + w4.n + rest.n]

bit_image(image, density_opt) ==
    LET density == unwrap_or(density_opt, str_d24)
        density_upper == to_uppercase(density)
        header == CASE density_upper = str_S8 -> BITMAP_S8
                    [] density_upper = str_D8 -> BITMAP_D8
                    [] density_upper = str_S24 -> BITMAP_S24
                    [] OTHER -> BITMAP_D24
        n == IF density = str_s8 \/ density = str_d8 THEN 1 ELSE 3
        lines == bitimage_lines(image, n * 8)
        w0 == write(sink, line_space_bytes(0))
        w == bit_image_lines(w0.sink, header, n, lines)
    IN  /\ sink' = w.sink
        /\ last' = [op |-> "bit_image",
                    arg |-> [image |-> image, density |-> density_opt],
                    before |-> sink, ret |-> "Ok", n |-> w0.n + w.n,
                    chunk |-> n * 8, header |-> header, lines |-> lines]
        /\ calls' = Append(calls, [op |-> "bit_image",
                        arg |-> [image |-> image, density |-> density_opt],
                        ret |-> "Ok"])
        /\ UNCHANGED printer

(***************************************************************************)
(* Raster.  get_raster is the whole image, row after row, each row of      *)
(* ceil(width / 8) bytes.  The widths drawn are far below the overflow of  *)
(* width + 7.                                                              *)
(***************************************************************************)
get_raster(image) ==
    [k \in 1..(((image.width + 7) \div 8) * image.height) |->
        row_byte(image, 0, k)]

raster_width_floor(image) == (image.width \div 8) % 65536

raster_width(image) == ((image.width + 7) \div 8) % 65536

raster(image, mode) ==
    LET mode_upper == to_uppercase(unwrap_or(mode, str_NORMAL))
        header == CASE mode_upper = str_DW -> <<\h1D, \h76, \h30, \h01>>
                    [] mode_upper = str_DH -> <<\h1D, \h76, \h30, \h02>>
                    [] mode_upper = str_QD -> <<\h1D, \h76, \h30, \h03>>
                    [] OTHER -> <<\h1D, \h76, \h30, \h00>>
        w1 == write(sink, header)
        w2 == write_u16le(w1.sink, raster_width(image))
        w3 == write_u16le(w2.sink, image.height % 65536)
        w4 == write(w3.sink, get_raster(image))
    IN  /\ sink' = w4.sink
        /\ Returned("raster", [image |-> image, mode |-> mode],
                    Ok(w1.n + w2.n + w3.n + w4.n))

(***************************************************************************)
(* Status queries.  The query writes its op-code with write_all, then      *)
(* reads once into a zeroed buffer of the response size.  The device has   *)
(* the response resp to send; the one read returns the first k bytes of it *)
(* (k is less than the size when the response arrives in pieces or is      *)
(* short) and its count is dropped.                                        *)
(***************************************************************************)
Queries ==
    {[name |-> "get_serial", opcode |-> <<\h1C, \hEA, \h52>>, size |-> 16],
     [name |-> "get_cut_count", opcode |-> <<\h1D, \hE2>>, size |-> 16],
     [name |-> "get_rom_version", opcode |-> <<\h1D, \h49, \h03>>, size |-> 4],
     [name |-> "get_power_count", opcode |-> <<\h1D, \hE5>>, size |-> 8],
     [name |-> "get_printed_length", opcode |-> <<\h1D, \hE3>>, size |-> 8],
     [name |-> "get_remaining_paper", opcode |-> <<\h1D, \hE1>>, size |-> 8],
     [name |-> "paper_loaded", opcode |-> <<\h1D, \h72, \h01>>, size |-> 1],
     [name |-> "get_status", opcode |-> <<\h10, \h04, \h02>>, size |-> 1]}

write_all(s, buf) == s \o buf

read(buffer, resp, k) ==
    [i \in 1..Len(buffer) |-> IF i <= k THEN resp[i] ELSE buffer[i]]

Continuation(b) == b >= 128 /\ b <= 191

\* std::str::from_utf8: whether the bytes are well-formed UTF-8.
RECURSIVE from_utf8_ok(_)
from_utf8_ok(b) ==
    IF b = <<>> THEN TRUE
    ELSE LET h == Head(b)
             len == CASE h < 128 -> 1
                      [] h >= 194 /\ h <= 223 -> 2
                      [] h >= 224 /\ h <= 239 -> 3
                      [] h >= 240 /\ h <= 244 -> 4
                      [] OTHER -> 0
         IN  /\ len > 0
             /\ Len(b) >= len
             /\ \A i \in 2..len : Continuation(b[i])
             /\ h = 224 => b[2] >= 160
             /\ h = 237 => b[2] <= 159
             /\ h = 240 => b[2] >= 144
             /\ h = 244 => b[2] <= 143
             /\ from_utf8_ok(SubSeq(b, len + 1, Len(b)))

bit_and_4(status) == (status \div 4) % 2

query_value(q, buffer) ==
    CASE q.name = "paper_loaded" -> Ok(buffer[1] = 0)
      [] q.name = "get_status" ->
           IF bit_and_4(buffer[1]) # 0 THEN Ok("Cover open")
           ELSE Ok("No Errors")
      [] OTHER -> IF from_utf8_ok(buffer) THEN Ok(buffer) ELSE Err("Utf8Error")

query(q, resp, k) ==
    LET buffer == read([i \in 1..q.size |-> 0], resp, k)
        value == query_value(q, buffer)
    IN  /\ sink' = write_all(sink, q.opcode)
        /\ last' = [op |-> q.name, arg |-> [resp |-> resp, k |-> k],
                    before |-> sink,
                    ret |-> IF value.ok THEN "Ok" ELSE value.err,
                    buffer |-> buffer, value |-> value]
        /\ calls' = Append(calls, [op |-> q.name,
                        arg |-> [resp |-> resp, k |-> k],
                        ret |-> IF value.ok THEN "Ok" ELSE value.err])
        /\ UNCHANGED printer

(***************************************************************************)
(* Printer::new: the dialect is chosen by the caller, nothing is written.  *)
(***************************************************************************)
Init ==
    /\ printer \in SupportedPrinters
    /\ sink = <<>>
    /\ calls = <<>>
    /\ last = [op |-> "new"]

(***************************************************************************)
(* One barcode call on a new Printer: every width with every height, and   *)
(* every symbology, position and font with the widths and heights around   *)
(* the limits.                                                             *)
(***************************************************************************)
Code_1 == <<49>>
Code_A1 == <<65, 49>>

BarcodeCodes == {<<>>, Code_1, Code_A1}

WidthSamples == {0, 1, 2, 3, 6, 7, 255}
HeightSamples == {0, 1, 162, 255}

BarcodeArgs ==
    [code : {Code_1}, kind : {"EAN13"}, position : {"Off"},
     font : {"Standard"}, width : Byte, height : Byte]
    \cup
    [code : BarcodeCodes, kind : BarcodeType, position : TextPosition,
     font : Font, width : WidthSamples, height : HeightSamples]

NextBarcode ==
    /\ calls = <<>>
    /\ \E a \in BarcodeArgs :
          barcode(a.code, a.kind, a.position, a.font, a.width, a.height)

SpecBarcode == Init /\ [][NextBarcode]_vars

(***************************************************************************)
(* The calls of a session: up to MaxCalls calls on one Printer, of every   *)
(* operation, with recognised and unrecognised arguments.                  *)
(***************************************************************************)
str_hello == <<104, 101, 108, 108, 111>>
str_e_acute == <<233>>
str_lf_lower == <<108, 102>>
str_lt_lower == <<108, 116>>
str_b_lower == <<98>>
str_bu_mixed == <<98, 85>>
str_XX == <<88, 88>>

Contents == {<<>>, str_hello, str_e_acute}
UnderlineModes == {None, Some(str_OFF), Some(str_ON), Some(str_THICK),
                   Some(str_XX)}
LineSpaces == {-1, 0, 30, 255, 256}
FeedCounts == {0, 1, 2, 3}
Controls == {str_LF, str_FF, str_CR, str_HT, str_VT, str_lf_lower, str_XX,
             <<>>, str_A}
Alignments == {str_LT, str_CT, str_RT, str_lt_lower, str_XX, <<>>, str_LF}
Families == {str_A, str_B, str_C, str_b_lower, str_XX, <<>>, <<68>>}
StyleKinds == {str_B, str_U, str_U2, str_BU, str_BU2, str_NORMAL,
               str_b_lower, str_bu_mixed, str_XX, <<>>}
Sizes == {0, 1, 2, 3}
Pins == {2, 5, 0}

SessionBarcodeArgs ==
    [code : {Code_1}, kind : {"EAN13", "Code128"}, position : {"Below"},
     font : {"FontB"}, width : {0, 4}, height : {0, 162}]

Call ==
    \/ hwinit
    \/ enable
    \/ disable
    \/ \E content \in Contents : print(content)
    \/ \E content \in Contents : println(content)
    \/ \E mode \in UnderlineModes : underline_mode(mode)
    \/ \E n \in LineSpaces : line_space(n)
    \/ \E n \in FeedCounts : feed(n)
    \/ \E ctrl \in Controls : control(ctrl)
    \/ \E alignment \in Alignments : align(alignment)
    \/ \E family \in Families : font(family)
    \/ \E kind \in StyleKinds : style(kind)
    \/ \E width \in Sizes, height \in Sizes : size(width, height)
    \/ \E pin \in Pins : cashdraw(pin)
    \/ full_cut
    \/ partial_cut
    \/ \E a \in SessionBarcodeArgs :
          barcode(a.code, a.kind, a.position, a.font, a.width, a.height)

Next == Len(calls) < MaxCalls /\ Call

Spec == Init /\ [][Next]_vars

(***************************************************************************)
(* A print job: up to MaxSeqCalls calls of the operations a receipt is     *)
(* made of.                                                                *)
(***************************************************************************)
JobCall ==
    \/ hwinit
    \/ enable
    \/ disable
    \/ \E content \in {str_hello, str_e_acute} : print(content)
    \/ feed(1)
    \/ full_cut
    \/ partial_cut

NextSeq == Len(calls) < MaxSeqCalls /\ JobCall

SpecSeq == Init /\ [][NextSeq]_vars

(***************************************************************************)
(* One bit_image or raster call on a new Printer, for images of up to      *)
(* MaxImgWidth by MaxImgHeight dots and every spelling of the densities,   *)
(* and for raster also wider images of up to MaxRasterHeight rows.         *)
(***************************************************************************)
MaxImgWidth == 3
MaxImgHeight == 49

str_s24 == <<115, 50, 52>>

Images == [width : 0..MaxImgWidth, height : 0..MaxImgHeight, seed : {0, 200}]

Densities == {None, Some(str_s8), Some(str_S8), Some(str_d8), Some(str_D8),
              Some(str_s24), Some(str_S24), Some(str_d24), Some(str_D24),
              Some(str_XX)}

MaxRasterHeight == 2

str_dw_lower == <<100, 119>>

RasterWidths == {0, 1, 7, 8, 9, 16, 17, 2041, 2048}

RasterImages ==
    Images \cup
    [width : RasterWidths, height : 0..MaxRasterHeight, seed : {0, 200}]

RasterModes == {None, Some(str_NORMAL), Some(str_DW), Some(str_dw_lower),
                Some(str_DH), Some(str_QD), Some(str_XX)}

NextImage ==
    /\ calls = <<>>
    /\ \/ \E image \in Images, density \in Densities :
             bit_image(image, density)
       \/ \E image \in RasterImages, mode \in RasterModes :
             raster(image, mode)

SpecImage == Init /\ [][NextImage]_vars

(***************************************************************************)
(* One status query on a new Printer: the device has a full response to    *)
(* send and the read returns any prefix of it.                             *)
(***************************************************************************)
ResponsePatterns == {<<0>>, <<4>>, <<49>>, <<195, 169>>, <<255>>}

Responses(len) == {repeat(pat, len) : pat \in ResponsePatterns}

NextQuery ==
    /\ calls = <<>>
    /\ \E q \in Queries :
         \E full \in Responses(q.size), k \in 0..q.size :
            query(q, SubSeq(full, 1, q.size), k)

SpecQuery == Init /\ [][NextQuery]_vars

(***************************************************************************)
(* Properties.  Written(k) is the k-th byte the last call put on the sink, *)
(* Output the bytes it put there.                                          *)
(***************************************************************************)
Output == SubSeq(sink, Len(last.before) + 1, Len(sink))

Written(k) == sink[Len(last.before) + k]

BarcodeOk == last.op = "barcode" /\ last.ret = "Ok"

\* C1: on SNBC a barcode call writes the width command 1D 77 w for a width w
\* in 2..6 and 1D 77 02 for every other byte value; on P3 it writes 1D 77 w
\* for w in 1..6 and 1D 77 03 for every other byte value.
C1_BarcodeWidth ==
    (last.op = "barcode" /\ printer \in {"SNBC", "P3"}) =>
        LET w == last.arg.width
            expected == IF printer = "SNBC"
                        THEN (IF w \in 2..6 THEN w ELSE 2)
                        ELSE (IF w \in 1..6 THEN w ELSE 3)
        IN  /\ Len(Output) >= 3
            /\ SubSeq(Output, 1, 3) = <<29, 119, expected>>

C1_Witness ==
    /\ last.op = "barcode"
    /\ printer = "SNBC"
    /\ last.arg.width = 1
    /\ SubSeq(Output, 1, 3) = <<29, 119, 2>>

\* C2: in a barcode call on SNBC or P3 the width byte on the sink is in the
\* dialect's range (2..6 on SNBC, 1..6 on P3) and the height byte on the
\* sink is in 1..255, whatever width and height were passed.
C2_BarcodeRanges ==
    (BarcodeOk /\ printer \in {"SNBC", "P3"}) =>
        /\ Written(3) \in (IF printer = "SNBC" THEN 2..6 ELSE 1..6)
        /\ Written(6) \in 1..255

\* C3: a successful barcode call writes the width, height, text position,
\* font and type commands in this order, then 7B 42 exactly when the kind
\* is Code128, then the bytes of the code, then one 00.
C3_BarcodeStream ==
    BarcodeOk =>
        LET a == last.arg
            selector == IF a.kind = "Code128" THEN <<123, 66>> ELSE <<>>
        IN  /\ SubSeq(sink, 1, Len(last.before)) = last.before
            /\ Len(Output) = 15 + Len(selector) + Len(as_bytes(a.code)) + 1
            /\ <<Written(1), Written(2)>> = <<29, 119>>
            /\ <<Written(4), Written(5)>> = <<29, 104>>
            /\ <<Written(7), Written(8)>> = <<29, 72>>
            /\ <<Written(10), Written(11)>> = <<29, 102>>
            /\ <<Written(13), Written(14)>> = <<29, 107>>
            /\ SubSeq(Output, 16, Len(Output))
                  = selector \o as_bytes(a.code) \o <<0>>

C3_Witness ==
    /\ BarcodeOk
    /\ last.arg.kind = "Code128"
    /\ last.arg.code = Code_A1
    /\ SubSeq(Output, 16, Len(Output)) = <<123, 66, 65, 49, 0>>


\* C4: the sink holds the bytes of the successful calls, concatenated in
\* call order with nothing inserted, dropped or reordered; on SNBC the calls
\* hwinit, enable, print("hello"), feed(1), partial_cut leave
\* 1B 40, 1B 3D 01, "hello", 0A, 0A 0A 0A 1D 56 01.
JobBytes(c) ==
    IF c.ret # "Ok" THEN <<>>
    ELSE CASE c.op = "hwinit" -> <<27, 64>>
           [] c.op = "enable" -> <<27, 61, 1>>
           [] c.op = "disable" ->
                IF printer = "SNBC" THEN <<27, 61, 0>> ELSE <<27, 61, 2>>
           [] c.op = "print" -> utf8(c.arg)
           [] c.op = "feed" -> [i \in 1..c.arg |-> 10]
           [] c.op = "full_cut" -> <<10, 10, 10, 29, 86, 0>>
           [] c.op = "partial_cut" ->
                IF printer = "SNBC" THEN <<10, 10, 10, 29, 86, 1>>
                ELSE <<10, 10, 10, 27, 109>>

RECURSIVE JobStream(_)
JobStream(cs) ==
    IF cs = <<>> THEN <<>> ELSE JobBytes(Head(cs)) \o JobStream(Tail(cs))

RoundTrip ==
    /\ printer = "SNBC"
    /\ [i \in 1..Len(calls) |-> calls[i].op]
         = <<"hwinit", "enable", "print", "feed", "partial_cut">>
    /\ calls[3].arg = str_hello
    /\ calls[4].arg = 1

RoundTripBytes ==
    <<27, 64, 27, 61, 1, 104, 101, 108, 108, 111, 10, 10, 10, 10, 29, 86, 1>>

C4_CallOrder ==
    /\ sink = JobStream(calls)
    /\ RoundTrip => sink = RoundTripBytes

C4_Witness == RoundTrip /\ sink = RoundTripBytes

\* C5: enable, disable, partial_cut and barcode on the Unknown printer, and
\* full_cut on P3 and on the Unknown printer, fail with Unsupported and
\* leave the sink as it was before the call.
NoEncoding ==
    \/ last.op \in {"enable", "disable", "partial_cut", "barcode"}
         /\ printer = "Unknown"
    \/ last.op = "full_cut" /\ printer \in {"P3", "Unknown"}

C5_UnsupportedWritesNothing ==
    NoEncoding => last.ret = "Unsupported" /\ sink = last.before

C5_Witness ==
    /\ last.op = "full_cut"
    /\ printer = "P3"
    /\ last.ret = "Unsupported"
    /\ last.before # <<>>
    /\ sink = last.before

\* C6: control, align and font fail with InvalidData and write nothing when
\* the value is not one of theirs (LF FF CR HT VT; LT CT RT; A B C); with
\* one of theirs they succeed and write exactly that value's command.
Commands(op) ==
    CASE op = "control" -> {<<str_LF, <<10>>>>, <<str_FF, <<12>>>>,
                            <<str_CR, <<13>>>>, <<str_HT, <<9>>>>,
                            <<str_VT, <<11>>>>}
      [] op = "align" -> {<<str_LT, TXT_ALIGN_LT>>, <<str_CT, TXT_ALIGN_CT>>,
                          <<str_RT, TXT_ALIGN_RT>>}
      [] op = "font" -> {<<str_A, TXT_FONT_A>>, <<str_B, TXT_FONT_B>>,
                         <<str_C, TXT_FONT_C>>}

C6_InvalidArgument ==
    last.op \in {"control", "align", "font"} =>
        LET hits == {c \in Commands(last.op) : c[1] = to_uppercase(last.arg)}
        IN  IF hits = {}
            THEN last.ret = "InvalidData" /\ sink = last.before
            ELSE /\ last.ret = "Ok"
                 /\ \A c \in hits : sink = last.before \o c[2]

C6_Witness ==
    /\ last.op = "control"
    /\ last.arg = str_XX
    /\ last.ret = "InvalidData"
    /\ last.before # <<>>
    /\ sink = last.before

\* C7: style writes exactly two commands for every kind, the bold command
\* first and the underline command second; a kind that is not one of B, U,
\* U2, BU, BU2 writes bold off, underline off.
BoldCommands == {TXT_BOLD_ON, TXT_BOLD_OFF}

UnderlineCommands == {TXT_UNDERL_OFF, TXT_UNDERL_ON, TXT_UNDERL2_ON}

C7_StyleOrder ==
    last.op = "style" =>
        /\ \E b \in BoldCommands, u \in UnderlineCommands : Output = b \o u
        /\ to_uppercase(last.arg) \notin {str_B, str_U, str_U2, str_BU, str_BU2}
             => Output = TXT_BOLD_OFF \o TXT_UNDERL_OFF


IsBitImage == last.op = "bit_image"

SelectedDensity == to_uppercase(unwrap_or(last.arg.density, str_D24))

\* C8: bit_image asks the image for rows of 8 dots when the density selects
\* the S8 or D8 header and for rows of 24 dots when it selects the S24 or
\* D24 header, however the density is spelled.
C8_ChunkMatchesHeader ==
    IsBitImage =>
        /\ SelectedDensity = str_S8 => last.header = BITMAP_S8
        /\ SelectedDensity = str_D8 => last.header = BITMAP_D8
        /\ last.header \in {BITMAP_S8, BITMAP_D8} => last.chunk = 8
        /\ last.header \in {BITMAP_S24, BITMAP_D24} => last.chunk = 24

\* The stream of the rows of a bit_image call, row i declared with counts[i].
RECURSIVE RowStream(_, _, _)
RowStream(header, lines, counts) ==
    IF lines = <<>> THEN <<>>
    ELSE header \o <<Head(counts) % 256, Head(counts) \div 256>>
           \o Head(lines) \o <<10>>
           \o RowStream(header, Tail(lines), Tail(counts))

ByteLengths == [i \in 1..Len(last.lines) |-> Len(last.lines[i])]

ColumnCounts ==
    [i \in 1..Len(last.lines) |->
        (Len(last.lines[i]) \div (last.chunk \div 8)) % 65536]

IsQuery == \E q \in Queries : last.op = q.name

QueryOf(name) == CHOOSE q \in Queries : q.name = name

\* C10: a status query writes its op-code and returns a result only once
\* its whole fixed-size response is in the buffer: the result is never
\* built from a buffer that the device filled only in part.
C10_FullResponse ==
    IsQuery =>
        /\ sink = last.before \o QueryOf(last.op).opcode
        /\ Len(last.buffer) = QueryOf(last.op).size
        /\ last.buffer = last.arg.resp


\* C11: feed(n) writes max(n, 1) bytes 0A and nothing else: one for
\* feed(0), three for feed(3).
C11_FeedCount ==
    last.op = "feed" =>
        LET count == IF last.arg > 1 THEN last.arg ELSE 1
        IN  /\ last.ret = "Ok"
            /\ Len(Output) = count
            /\ \A i \in 1..count : Written(i) = 10
            /\ last.arg = 0 => Output = <<10>>
            /\ last.arg = 3 => Output = <<10, 10, 10>>

C11_Witness ==
    /\ last.op = "feed"
    /\ last.arg = 0
    /\ last.before # <<>>
    /\ sink = last.before \o <<10>>

\* C12: size(width, height) writes the normal-size command, then the
\* double-width command exactly when width is 2, then the double-height
\* command exactly when height is 2, and nothing else; it never fails.
C12_SizeBlocks ==
    last.op = "size" =>
        LET width == last.arg[1]
            height == last.arg[2]
        IN  /\ last.ret = "Ok"
            /\ Output = TXT_NORMAL
                          \o (IF width = 2 THEN TXT_2WIDTH ELSE <<>>)
                          \o (IF height = 2 THEN TXT_2HEIGHT ELSE <<>>)
            /\ (width = 1 /\ height = 1) => Output = TXT_NORMAL

C12_Witness ==
    /\ last.op = "size"
    /\ last.arg = <<2, 2>>
    /\ Output = TXT_NORMAL \o TXT_2WIDTH \o TXT_2HEIGHT
    /\ Len(Output) = 9


CeilDiv8(w) == CHOOSE q \in 0..w : 8 * q >= w /\ 8 * q < w + 8

\* C13: raster writes the mode header, then ceil(width / 8) as a
\* little-endian 16-bit field (2 for width 9, 1 for width 8 and width 1),
\* then the height as a little-endian 16-bit field, then the raster buffer.
C13_RasterWidthBytes ==
    last.op = "raster" =>
        LET image == last.arg.image
            wb == CeilDiv8(image.width)
        IN  /\ last.ret = "Ok"
            /\ Len(Output) = 8 + Len(get_raster(image))
            /\ <<Written(1), Written(2), Written(3)>> = <<29, 118, 48>>
            /\ Written(4) \in 0..3
            /\ <<Written(5), Written(6)>> = <<wb % 256, wb \div 256>>
            /\ <<Written(7), Written(8)>>
                 = <<image.height % 256, image.height \div 256>>
            /\ SubSeq(Output, 9, Len(Output)) = get_raster(image)
            /\ image.width = 9 => <<Written(5), Written(6)>> = <<2, 0>>
            /\ image.width \in {1, 8} => <<Written(5), Written(6)>> = <<1, 0>>

C13_Witness ==
    /\ last.op = "raster"
    /\ last.arg.image.width = 9
    /\ last.arg.image.height = 2
    /\ SubSeq(Output, 5, 8) = <<2, 0, 2, 0>>
    /\ Len(Output) = 12


\* The bytes of the last call, when it is one of the dialect's commands.
DialectBytes ==
    /\ (last.op = "enable" /\ printer \in {"SNBC", "P3"})
         => last.ret = "Ok" /\ Output = <<27, 61, 1>>
    /\ (last.op = "disable" /\ printer = "SNBC")
         => last.ret = "Ok" /\ Output = <<27, 61, 0>>
    /\ (last.op = "disable" /\ printer = "P3")
         => last.ret = "Ok" /\ Output = <<27, 61, 2>>
    /\ (last.op = "partial_cut" /\ printer = "SNBC")
         => last.ret = "Ok" /\ Output = <<10, 10, 10, 29, 86, 1>>
    /\ (last.op = "partial_cut" /\ printer = "P3")
         => last.ret = "Ok" /\ Output = <<10, 10, 10, 27, 109>>
    /\ (last.op = "full_cut" /\ printer = "SNBC")
         => last.ret = "Ok" /\ Output = <<10, 10, 10, 29, 86, 0>>

\* C14: the dialect given to Printer::new decides the bytes of enable,
\* disable, partial_cut and full_cut at every call, whatever calls came
\* before (disable included), and no call changes the dialect.
C14_DialectDecides == []DialectBytes /\ [][printer' = printer]_vars

C14_Witness ==
    /\ printer = "P3"
    /\ Len(calls) >= 3
    /\ calls[1].op = "disable"
    /\ calls[1].ret = "Ok"
    /\ last.op = "partial_cut"
    /\ Output = <<10, 10, 10, 27, 109>>

\* C15: a call that succeeds returns the number of bytes it appended to the
\* sink (the sink takes every byte of every write).
C15_ReturnedCount ==
    (last.op # "new" /\ last.ret = "Ok") => last.n = Len(Output)

====
